---- MODULE Spec2Model ----
(***************************************************************************)
(* Model of GitHubLicenseChecker (src/main.py): the context manager that   *)
(* owns the browser, search_repositories and its per-entry loop,           *)
(* _get_repository_details with the five field extractors, and             *)
(* _parse_count.                                                           *)
(*                                                                         *)
(* Python strings are sequences of one-character strings; None is the      *)
(* one-element sequence <<"None">>, which is no string of characters.      *)
(* An Optional[Dict] is a sequence of length 0 (None) or 1.                *)
(***************************************************************************)
EXTENDS Integers, Sequences, FiniteSets, TLC

VARIABLES
    pc,             \* position of the run / of the function under study
    count,          \* requested count N read by main()
    repo_elements,  \* element handles returned by query_selector_all
    idx,            \* 1-based position of the for loop in repo_elements[:count]
    repositories,   \* the list accumulated by search_repositories
    results,        \* the list returned by search_repositories
    pageShown,      \* document the shared page currently shows
    playwright,     \* self.playwright: "unset", "started", "stopped"
    browser,        \* self.browser: "none", "open", "closed"
    outcome,        \* per entry: how its loop iteration ended
    fetches,        \* number of calls of _get_repository_details
    resolvedOn,     \* documents shown while entry handles were read
    searchFailed,   \* which step made search_repositories return [] ("no" if none)
    bodyRaised,     \* the body of the with statement raised
    page,           \* content of the repository page under extraction
    navFails,       \* page.goto(repo_url) raises
    repo_info,      \* value returned by _get_repository_details
    count_text,     \* argument of _parse_count
    parsed          \* value returned by _parse_count

vars == <<pc, count, repo_elements, idx, repositories, results, pageShown,
          playwright, browser, outcome, fetches, resolvedOn, searchFailed,
          bodyRaised, page, navFails, repo_info, count_text, parsed>>

runVars == <<count, repo_elements, idx, repositories, results, pageShown,
             playwright, browser, outcome, fetches, resolvedOn, searchFailed,
             bodyRaised>>
detailVars == <<page, navFails, repo_info>>
parseVars == <<count_text, parsed>>

(***************************************************************************)
(* Bounds                                                                  *)
(***************************************************************************)
MaxTextLen == 3     \* longest argument of _parse_count
MaxEntries == 3     \* most entries on the search results page
MaxCount == 3       \* largest requested count
MaxLive == 2        \* most selectors a repository page answers

(***************************************************************************)
(* Python values and string methods                                        *)
(***************************************************************************)
None == <<"None">>

Min(a, b) == IF a <= b THEN a ELSE b
Max(a, b) == IF a >= b THEN a ELSE b

Digits == <<"0", "1", "2", "3", "4", "5", "6", "7", "8", "9">>
UpperChars == <<"A", "B", "C", "D", "E", "F", "G", "H", "I", "J", "K", "L", "M",
                "N", "O", "P", "Q", "R", "S", "T", "U", "V", "W", "X", "Y", "Z">>
LowerChars == <<"a", "b", "c", "d", "e", "f", "g", "h", "i", "j", "k", "l", "m",
                "n", "o", "p", "q", "r", "s", "t", "u", "v", "w", "x", "y", "z">>

IsDigit(c) == \E d \in 1..10 : Digits[d] = c
DigitVal(c) == (CHOOSE d \in 1..10 : Digits[d] = c) - 1
IsSpace(c) == c = " "

\* bool(x) of a str or None
Truthy(s) == s # None /\ s # <<>>

\* str.lower()
LowerChar(c) ==
    IF \E u \in 1..26 : UpperChars[u] = c
    THEN LowerChars[CHOOSE u \in 1..26 : UpperChars[u] = c]
    ELSE c
Lower(s) == [j \in 1..Len(s) |-> LowerChar(s[j])]

\* str.replace(old, new) for a one-character old
RECURSIVE Replace(_, _, _)
Replace(s, old, new) ==
    IF s = <<>> THEN <<>>
    ELSE (IF Head(s) = old THEN new ELSE <<Head(s)>>) \o Replace(Tail(s), old, new)

\* old in s
Contains(s, c) == \E j \in 1..Len(s) : s[j] = c

\* str.strip()
RECURSIVE LStrip(_)
LStrip(s) == IF s # <<>> /\ IsSpace(Head(s)) THEN LStrip(Tail(s)) ELSE s
RECURSIVE RStrip(_)
RStrip(s) ==
    IF s # <<>> /\ IsSpace(s[Len(s)]) THEN RStrip(SubSeq(s, 1, Len(s) - 1)) ELSE s
Strip(s) == RStrip(LStrip(s))

\* str.startswith(c) for a one-character prefix
StartsWith(s, c) == s # <<>> /\ Head(s) = c

AllDigits(s) == \A j \in 1..Len(s) : IsDigit(s[j])

RECURSIVE DigitsValue(_)
DigitsValue(s) ==
    IF s = <<>> THEN 0 ELSE 10 * DigitsValue(SubSeq(s, 1, Len(s) - 1)) + DigitVal(s[Len(s)])

RECURSIVE Pow10(_)
Pow10(n) == IF n = 0 THEN 1 ELSE 10 * Pow10(n - 1)

(***************************************************************************)
(* Results of a try block or of a call: returned a value, raised, or fell  *)
(* off the end of the block.                                               *)
(***************************************************************************)
Return(v) == [kind |-> "return", val |-> v]
Raise == [kind |-> "raise"]
Fall == [kind |-> "fall"]

\* int(str): surrounding whitespace, an optional sign, then decimal digits
IsSign(c) == c = "-" \/ c = "+"
IntOf(s) ==
    LET t == Strip(s)
        signed == t # <<>> /\ IsSign(Head(t))
        body == IF signed THEN Tail(t) ELSE t
    IN  IF body = <<>> \/ ~AllDigits(body) THEN Raise
        ELSE Return((IF signed /\ Head(t) = "-" THEN -1 ELSE 1) * DigitsValue(body))

\* int(float(str) * scale): surrounding whitespace, an optional sign, digits
\* with at most one decimal point and at least one digit; int() truncates
\* towards zero
FloatTimesOf(s, scale) ==
    LET t == Strip(s)
        signed == t # <<>> /\ IsSign(Head(t))
        body == IF signed THEN Tail(t) ELSE t
        dots == {j \in 1..Len(body) : body[j] = "."}
        dot == IF dots = {} THEN Len(body) + 1 ELSE CHOOSE j \in dots : TRUE
        whole == SubSeq(body, 1, dot - 1)
        frac == SubSeq(body, dot + 1, Len(body))
    IN  IF Cardinality(dots) > 1 \/ ~AllDigits(whole) \/ ~AllDigits(frac)
           \/ (whole = <<>> /\ frac = <<>>)
        THEN Raise
        ELSE Return((IF signed /\ Head(t) = "-" THEN -1 ELSE 1)
                    * ((DigitsValue(whole \o frac) * scale) \div Pow10(Len(frac))))

(***************************************************************************)
(* _parse_count                                                            *)
(***************************************************************************)
ParseCountTry(text) ==
    IF Contains(text, "k") THEN FloatTimesOf(Replace(text, "k", <<>>), 1000)
    ELSE IF Contains(text, "m") THEN FloatTimesOf(Replace(text, "m", <<>>), 1000000)
    ELSE IntOf(text)

_parse_count(arg) ==
    IF ~Truthy(arg) THEN 0
    ELSE LET r == ParseCountTry(Replace(Lower(arg), ",", <<>>))
         IN  IF r.kind = "return" THEN r.val ELSE 0

(***************************************************************************)
(* Arguments of _parse_count: None and every text of bounded length        *)
(***************************************************************************)
CountChars == {"1", "2", ".", ",", "k", "m", "K", "-", " ", "a"}

RECURSIVE TextsOfLen(_)
TextsOfLen(n) ==
    IF n = 0 THEN {<<>>}
    ELSE {<<c>> \o t : c \in CountChars, t \in TextsOfLen(n - 1)}

CountTexts == {None} \cup UNION {TextsOfLen(n) : n \in 0..MaxTextLen}

(***************************************************************************)
(* String literals of src/main.py and sample texts of pages                *)
(***************************************************************************)
S_NoDescription == <<"N", "o", " ", "d", "e", "s", "c", "r", "i", "p", "t", "i", "o", "n">>
S_Unknown == <<"U", "n", "k", "n", "o", "w", "n">>
S_ViewLicense == <<"V", "i", "e", "w", " ", "l", "i", "c", "e", "n", "s", "e">>
S_NoLicense == <<"N", "o", " ", "L", "i", "c", "e", "n", "s", "e">>
S_no_license == <<"n", "o", "-", "l", "i", "c", "e", "n", "s", "e">>
S_Error == <<"E", "r", "r", "o", "r">>
S_error == <<"e", "r", "r", "o", "r">>
S_LicenseFileFound == <<"L", "i", "c", "e", "n", "s", "e", " ", "f", "i", "l", "e", " ", "f", "o", "u", "n", "d">>
S_license_file == <<"l", "i", "c", "e", "n", "s", "e", "-", "f", "i", "l", "e">>
S_blob_main == <<"/", "b", "l", "o", "b", "/", "m", "a", "i", "n", "/">>
S_github == <<"h", "t", "t", "p", "s", ":", "/", "/", "g", "i", "t", "h", "u", "b", ".", "c", "o", "m">>
S_LICENSE == <<"L", "I", "C", "E", "N", "S", "E">>
S_LICENSE_md == <<"L", "I", "C", "E", "N", "S", "E", ".", "m", "d">>
S_LICENSE_txt == <<"L", "I", "C", "E", "N", "S", "E", ".", "t", "x", "t">>
S_COPYING == <<"C", "O", "P", "Y", "I", "N", "G">>
S_MIT == <<"M", "I", "T", " ", "L", "i", "c", "e", "n", "s", "e">>
S_license_href == <<"/", "o", "/", "r", "/", "b", "l", "o", "b", "/", "m", "a", "i", "n", "/", "L", "I", "C", "E", "N", "S", "E">>

(***************************************************************************)
(* The page capability: query_selector(selector) answers with no element,  *)
(* with an element, or raises; reading a detached element raises.          *)
(***************************************************************************)
NoMatch == [kind |-> "none"]
QueryRaises == [kind |-> "raise"]
Elem(text, attr) == [kind |-> "elem", detached |-> FALSE, text |-> text, attr |-> attr]
Detached == [kind |-> "elem", detached |-> TRUE]

desc_selector == "[data-pjax=\"#repo-content-pjax-container\"] p"
lang_selector == "[data-view-component=\"true\"] .Progress-item"
lang_span_selector == "[data-view-component=\"true\"] .ml-0 .color-fg-default"
star_selectors ==
    << "#repo-stars-counter-star",
       "[data-view-component=\"true\"] #repo-stars-counter-star",
       "a[href$=\"/stargazers\"] strong",
       ".js-social-count" >>
fork_selectors ==
    << "#repo-network-counter",
       "[data-view-component=\"true\"] #repo-network-counter",
       "a[href$=\"/forks\"] strong" >>
license_selectors ==
    << "[data-view-component=\"true\"] .Link--muted[href*=\"license\"]",
       ".octicon-law + .Link--muted",
       "a[href$=\"/blob/main/LICENSE\"]",
       "a[href$=\"/blob/master/LICENSE\"]",
       ".BorderGrid-cell .octicon-law + *" >>
license_files == << S_LICENSE, S_LICENSE_md, S_LICENSE_txt, S_COPYING >>
\* f'a[title="{license_file}"]'
FileSelector(f) ==
    IF f = S_LICENSE THEN "a[title=\"LICENSE\"]"
    ELSE IF f = S_LICENSE_md THEN "a[title=\"LICENSE.md\"]"
    ELSE IF f = S_LICENSE_txt THEN "a[title=\"LICENSE.txt\"]"
    ELSE "a[title=\"COPYING\"]"

Range(s) == {s[j] : j \in 1..Len(s)}

Selectors ==
    {desc_selector, lang_selector, lang_span_selector}
    \cup Range(star_selectors) \cup Range(fork_selectors) \cup Range(license_selectors)
    \cup {FileSelector(f) : f \in Range(license_files)}

(***************************************************************************)
(* Field extractors.  Each XxxTry is the body of the try block; the        *)
(* extractor itself adds the except clause and the trailing return.        *)
(***************************************************************************)
DescriptionTry(p) ==
    LET desc_element == p[desc_selector]
    IN  IF desc_element.kind = "raise" THEN Raise
        ELSE IF desc_element.kind = "elem"
        THEN (IF desc_element.detached THEN Raise
              ELSE Return(Strip(desc_element.text)))
        ELSE Fall

_get_description(p) ==
    LET r == DescriptionTry(p)
    IN  IF r.kind = "return" THEN r ELSE Return(S_NoDescription)

\* re.match(r'^([^0-9]+)', s).group(1); <<>> when there is no match
RECURSIVE LeadingNonDigits(_)
LeadingNonDigits(s) ==
    IF s = <<>> \/ IsDigit(Head(s)) THEN <<>>
    ELSE <<Head(s)>> \o LeadingNonDigits(Tail(s))

LanguageSpanTry(p) ==
    LET lang_span == p[lang_span_selector]
    IN  IF lang_span.kind = "raise" THEN Raise
        ELSE IF lang_span.kind = "elem"
        THEN (IF lang_span.detached THEN Raise ELSE Return(Strip(lang_span.text)))
        ELSE Fall

LanguageTry(p) ==
    LET lang_element == p[lang_selector]
    IN  IF lang_element.kind = "raise" THEN Raise
        ELSE IF lang_element.kind = "elem"
        THEN (IF lang_element.detached THEN Raise
              ELSE IF Truthy(lang_element.attr)
                      /\ LeadingNonDigits(lang_element.attr) # <<>>
              THEN Return(Strip(LeadingNonDigits(lang_element.attr)))
              ELSE LanguageSpanTry(p))
        ELSE LanguageSpanTry(p)

_get_primary_language(p) ==
    LET r == LanguageTry(p)
    IN  IF r.kind = "return" THEN r ELSE Return(S_Unknown)

\* for selector in ...: element = query_selector(selector); if element: return
\* self._parse_count(element.inner_text().strip())
RECURSIVE CountLoop(_, _)
CountLoop(p, selectors) ==
    IF selectors = <<>> THEN Fall
    ELSE LET element == p[Head(selectors)]
         IN  IF element.kind = "raise" THEN Raise
             ELSE IF element.kind = "elem"
             THEN (IF element.detached THEN Raise
                   ELSE Return(_parse_count(Strip(element.text))))
             ELSE CountLoop(p, Tail(selectors))

_get_stars_count(p) ==
    LET r == CountLoop(p, star_selectors)
    IN  IF r.kind = "return" THEN r ELSE Return(0)

_get_forks_count(p) ==
    LET r == CountLoop(p, fork_selectors)
    IN  IF r.kind = "return" THEN r ELSE Return(0)

RECURSIVE LicenseFileLoop(_, _, _)
LicenseFileLoop(p, url, files) ==
    IF files = <<>> THEN Return([name |-> S_NoLicense, key |-> S_no_license, url |-> <<>>])
    ELSE LET found == p[FileSelector(Head(files))]
         IN  IF found.kind = "raise" THEN Raise
             ELSE IF found.kind = "elem"
             THEN Return([name |-> S_LicenseFileFound, key |-> S_license_file,
                          url |-> url \o S_blob_main \o Head(files)])
             ELSE LicenseFileLoop(p, url, Tail(files))

RECURSIVE LicenseLoop(_, _, _)
LicenseLoop(p, url, selectors) ==
    IF selectors = <<>> THEN LicenseFileLoop(p, url, license_files)
    ELSE LET element == p[Head(selectors)]
         IN  IF element.kind = "raise" THEN Raise
             ELSE IF element.kind = "elem"
             THEN (IF element.detached THEN Raise
                   ELSE LET license_text == Strip(element.text)
                        IN  IF Truthy(license_text) /\ license_text # S_ViewLicense
                            THEN Return([name |-> license_text,
                                         key |-> Replace(Lower(license_text), " ", <<"-">>),
                                         url |-> IF Truthy(element.attr)
                                                 THEN element.attr ELSE <<>>])
                            ELSE LicenseLoop(p, url, Tail(selectors)))
             ELSE LicenseLoop(p, url, Tail(selectors))

LicenseTry(p, url) == LicenseLoop(p, url, license_selectors)

\* the except clause missing: a raising lookup propagates
_get_license_info_propagates(p, url) == LicenseTry(p, url)

_get_license_info(p, url) ==
    LET r == LicenseTry(p, url)
    IN  IF r.kind = "return" THEN r
        ELSE Return([name |-> S_Error, key |-> S_error, url |-> <<>>])

(***************************************************************************)
(* _get_repository_details: None (<<>>) when the navigation or anything    *)
(* else in its try block raises, otherwise the assembled record.           *)
(***************************************************************************)
_get_repository_details(p, gotoRaises, repo_url, repo_full_name) ==
    LET description == _get_description(p)
        language == _get_primary_language(p)
        stars == _get_stars_count(p)
        forks == _get_forks_count(p)
        license == _get_license_info(p, repo_url)
    IN  IF gotoRaises THEN <<>>
        ELSE IF \/ description.kind = "raise" \/ language.kind = "raise"
                \/ stars.kind = "raise" \/ forks.kind = "raise"
                \/ license.kind = "raise"
        THEN <<>>
        ELSE << [repository |-> repo_full_name,
                 url |-> repo_url,
                 description |-> description.val,
                 language |-> language.val,
                 stars |-> stars.val,
                 forks |-> forks.val,
                 license |-> license.val] >>

(***************************************************************************)
(* Repository pages: what each selector answers.  A selector that only     *)
(* narrows another one cannot match where the wider one finds nothing.     *)
(***************************************************************************)
CountResponses ==
    {QueryRaises, Detached, Elem(<<>>, None), Elem(<<"1", "2">>, None),
     Elem(<<"1", ".", "2", "k">>, None), Elem(<<"-", "5">>, None)}

LiveResponses(selector) ==
    IF selector = desc_selector
    THEN {QueryRaises, Detached, Elem(<<>>, None), Elem(<<" ">>, None), Elem(<<"H", "i">>, None)}
    ELSE IF selector = lang_selector
    THEN {QueryRaises, Detached, Elem(<<>>, None), Elem(<<>>, <<"P", "y", " ", "8", "%">>),
          Elem(<<>>, <<" ", "8", "%">>), Elem(<<>>, <<"8", "%">>)}
    ELSE IF selector = lang_span_selector
    THEN {QueryRaises, Detached, Elem(<<>>, None), Elem(<<"G", "o">>, None)}
    ELSE IF selector \in Range(star_selectors) \cup Range(fork_selectors)
    THEN CountResponses
    ELSE IF selector \in Range(license_selectors)
    THEN {QueryRaises, Detached, Elem(<<>>, S_license_href),
          Elem(S_ViewLicense, S_license_href), Elem(S_MIT, S_license_href),
          Elem(S_MIT, None), Elem(S_Error, None)}
    ELSE {QueryRaises, Elem(<<>>, None)}

EmptyPage == [s \in Selectors |-> NoMatch]

Realizable(p) ==
    /\ p[star_selectors[2]].kind = "elem" => p[star_selectors[1]].kind # "none"
    /\ p[fork_selectors[2]].kind = "elem" => p[fork_selectors[1]].kind # "none"

Live(p) == {s \in Selectors : p[s] # NoMatch}

SampleUrl == S_github \o <<"/", "o", "/", "r">>
SampleName == <<"o", "/", "r">>

(***************************************************************************)
(* Search result entries: what the handles of one .search-title element    *)
(* answer, and the repository page behind its link.                        *)
(***************************************************************************)
LicensedPage ==
    [EmptyPage EXCEPT ![license_selectors[1]] = Elem(S_MIT, S_license_href),
                      ![star_selectors[1]] = Elem(<<"1", ".", "2", "k">>, None)]

EntryKinds == {"relative", "absolute", "nolink", "nohref", "noname", "raises", "navfail"}

EntryName(i) == <<"o", "/", "r">> \o <<Digits[i + 1]>>

Entry(i, kind) ==
    [link |-> IF kind = "nolink" THEN "none" ELSE IF kind = "raises" THEN "raise" ELSE "elem",
     href |-> IF kind = "nohref" THEN None
              ELSE IF kind = "absolute" THEN S_github \o <<"/">> \o EntryName(i)
              ELSE <<"/">> \o EntryName(i),
     name |-> IF kind = "noname" THEN <<" ", " ">> ELSE <<" ">> \o EntryName(i),
     gotoRaises |-> kind = "navfail",
     page |-> IF kind = "absolute" THEN LicensedPage ELSE EmptyPage]

EntryLists ==
    UNION { {[i \in 1..m |-> Entry(i, kinds[i])] : kinds \in [1..m -> EntryKinds]}
            : m \in 0..MaxEntries }

\* the slice forgotten: every entry of the page is taken
SliceWhole(elements, n) == elements

\* repo_elements[:count]
Slice(elements, n) ==
    IF n >= 0 THEN SubSeq(elements, 1, Min(n, Len(elements)))
    ELSE SubSeq(elements, 1, Max(Len(elements) + n, 0))

\* the handler leaves the loop instead of going on
InnerExcept_break == "break"

\* the handler lets the exception reach the outer except clause
InnerExcept_reraise == "raise"

\* except Exception as e: print(...); continue
InnerExcept == "continue"

(***************************************************************************)
(* The run of main(): with GitHubLicenseChecker(...) as checker: ...       *)
(***************************************************************************)
DetailIdle == page = EmptyPage /\ navFails = FALSE /\ repo_info = <<>>
ParseIdle == count_text = None /\ parsed = 0
RunIdle ==
    /\ count = 0 /\ repo_elements = <<>> /\ idx = 0 /\ repositories = <<>>
    /\ results = <<>> /\ pageShown = "blank" /\ playwright = "unset"
    /\ browser = "none" /\ outcome = <<>> /\ fetches = 0 /\ resolvedOn = {}
    /\ searchFailed = "no" /\ bodyRaised = FALSE

Init ==
    /\ pc = "start"
    /\ count \in -1..MaxCount
    /\ repo_elements = <<>> /\ idx = 0 /\ repositories = <<>> /\ results = <<>>
    /\ pageShown = "blank" /\ playwright = "unset" /\ browser = "none"
    /\ outcome = <<>> /\ fetches = 0 /\ resolvedOn = {}
    /\ searchFailed = "no" /\ bodyRaised = FALSE
    /\ DetailIdle /\ ParseIdle

\* __enter__; when it raises the with statement never calls __exit__
Enter ==
    /\ pc = "start"
    /\ \E step \in {"start", "launch", "new_page", "none"} :
        /\ playwright' = IF step = "start" THEN "unset" ELSE "started"
        /\ browser' = IF step \in {"start", "launch"} THEN "none" ELSE "open"
        /\ pc' = IF step = "none" THEN "search" ELSE "done"
    /\ UNCHANGED <<count, repo_elements, idx, repositories, results, pageShown,
                   outcome, fetches, resolvedOn, searchFailed, bodyRaised>>
    /\ UNCHANGED <<detailVars, parseVars>>

\* search_repositories up to the for loop
SearchGoto ==
    /\ pc = "search"
    /\ \/ /\ \E shown \in {pageShown, "unknown"} : pageShown' = shown
          /\ searchFailed' = "goto"
          /\ results' = <<>>
          /\ pc' = "report"
          /\ UNCHANGED <<repo_elements, idx, repositories, outcome>>
       \/ /\ pageShown' = "search"
          /\ searchFailed' = "query"
          /\ results' = <<>>
          /\ pc' = "report"
          /\ UNCHANGED <<repo_elements, idx, repositories, outcome>>
       \/ /\ pageShown' = "search"
          /\ \E elements \in EntryLists :
                /\ repo_elements' = elements
                /\ outcome' = [i \in 1..Len(elements) |-> "unvisited"]
          /\ repositories' = <<>>
          /\ idx' = 1
          /\ pc' = "loop"
          /\ UNCHANGED <<results, searchFailed>>
    /\ UNCHANGED <<count, playwright, browser, fetches, resolvedOn, bodyRaised>>
    /\ UNCHANGED <<detailVars, parseVars>>

\* where the loop goes after an exception in its body
AfterException ==
    IF InnerExcept = "continue"
    THEN /\ idx' = idx + 1 /\ pc' = "loop" /\ UNCHANGED <<results, searchFailed>>
    ELSE IF InnerExcept = "break"
    THEN /\ idx' = Len(Slice(repo_elements, count)) + 1 /\ pc' = "loop"
         /\ UNCHANGED <<results, searchFailed>>
    ELSE /\ results' = <<>> /\ searchFailed' = "loop" /\ pc' = "report"
         /\ UNCHANGED idx

\* one iteration of the for loop, the call of _get_repository_details included
ProcessEntry ==
    /\ pc = "loop"
    /\ idx <= Len(Slice(repo_elements, count))
    /\ resolvedOn' = resolvedOn \cup {pageShown}
    /\ LET element == Slice(repo_elements, count)[idx]
           repo_full_name == Strip(element.name)
           repo_url == IF StartsWith(element.href, "/")
                       THEN S_github \o element.href ELSE element.href
           info == _get_repository_details(element.page, element.gotoRaises,
                                           repo_url, repo_full_name)
       IN  \E stale \in (IF pageShown = "search" THEN {FALSE} ELSE BOOLEAN) :
             IF stale \/ element.link = "raise"
             THEN /\ outcome' = [outcome EXCEPT ![idx] = "raised"]
                  /\ AfterException
                  /\ UNCHANGED <<repositories, pageShown, fetches>>
             ELSE IF element.link = "none" \/ ~Truthy(element.href)
                     \/ ~Truthy(repo_full_name)
             THEN /\ outcome' = [outcome EXCEPT ![idx] = "skipped"]
                  /\ idx' = idx + 1
                  /\ pc' = "loop"
                  /\ UNCHANGED <<repositories, pageShown, fetches, results, searchFailed>>
             ELSE /\ fetches' = fetches + 1
                  /\ IF element.gotoRaises
                     THEN \E shown \in {pageShown, "unknown"} : pageShown' = shown
                     ELSE pageShown' = "repo"
                  /\ repositories' = repositories \o info
                  /\ outcome' = [outcome EXCEPT ![idx] =
                                    IF info = <<>> THEN "dropped" ELSE "fetched"]
                  /\ idx' = idx + 1
                  /\ pc' = "loop"
                  /\ UNCHANGED <<results, searchFailed>>
    /\ UNCHANGED <<count, repo_elements, playwright, browser, bodyRaised>>
    /\ UNCHANGED <<detailVars, parseVars>>

\* return repositories
LoopEnd ==
    /\ pc = "loop"
    /\ idx > Len(Slice(repo_elements, count))
    /\ results' = repositories
    /\ pc' = "report"
    /\ UNCHANGED <<count, repo_elements, idx, repositories, pageShown, playwright,
                   browser, outcome, fetches, resolvedOn, searchFailed, bodyRaised>>
    /\ UNCHANGED <<detailVars, parseVars>>

\* the rest of the with body: display_results, input, export_to_json;
\* it can raise (input at end of file), and __exit__ runs either way
Report ==
    /\ pc = "report"
    /\ \E raises \in BOOLEAN : bodyRaised' = raises
    /\ pc' = "exit"
    /\ UNCHANGED <<count, repo_elements, idx, repositories, results, pageShown,
                   playwright, browser, outcome, fetches, resolvedOn, searchFailed>>
    /\ UNCHANGED <<detailVars, parseVars>>

\* __exit__
Exit ==
    /\ pc = "exit"
    /\ \E closeRaises \in BOOLEAN :
         IF browser # "none" /\ closeRaises
         THEN UNCHANGED <<browser, playwright>>
         ELSE /\ browser' = IF browser # "none" THEN "closed" ELSE browser
              /\ playwright' = IF playwright # "unset" THEN "stopped" ELSE playwright
    /\ pc' = "done"
    /\ UNCHANGED <<count, repo_elements, idx, repositories, results, pageShown,
                   outcome, fetches, resolvedOn, searchFailed, bodyRaised>>
    /\ UNCHANGED <<detailVars, parseVars>>

Next == Enter \/ SearchGoto \/ ProcessEntry \/ LoopEnd \/ Report \/ Exit

Spec == Init /\ [][Next]_vars

(***************************************************************************)
(* _get_repository_details on every page that answers at most MaxLive      *)
(* selectors                                                               *)
(***************************************************************************)
InitDetail ==
    /\ pc = "detail"
    /\ page = EmptyPage
    /\ navFails \in BOOLEAN
    /\ repo_info = <<>>
    /\ RunIdle /\ ParseIdle

\* the repository page has one more element, or one more failing query
PageAnswers ==
    /\ pc = "detail"
    /\ Cardinality(Live(page)) < MaxLive
    /\ \E s \in Selectors \ Live(page) : \E r \in LiveResponses(s) :
            page' = [page EXCEPT ![s] = r]
    /\ Realizable(page')
    /\ UNCHANGED <<pc, navFails, repo_info, runVars, parseVars>>

GetRepositoryDetails ==
    /\ pc = "detail"
    /\ repo_info' = _get_repository_details(page, navFails, SampleUrl, SampleName)
    /\ pc' = "detail_done"
    /\ UNCHANGED <<page, navFails, runVars, parseVars>>

NextDetail == PageAnswers \/ GetRepositoryDetails

SpecDetail == InitDetail /\ [][NextDetail]_vars

(***************************************************************************)
(* _parse_count on every text of CountTexts                                *)
(***************************************************************************)
InitParse ==
    /\ pc = "parse"
    /\ count_text \in CountTexts
    /\ parsed = 0
    /\ RunIdle /\ DetailIdle

ParseCount ==
    /\ pc = "parse"
    /\ parsed' = _parse_count(count_text)
    /\ pc' = "parse_done"
    /\ UNCHANGED <<count_text, runVars, detailVars>>

NextParse == ParseCount

SpecParse == InitParse /\ [][NextParse]_vars

(***************************************************************************)
(* Vocabulary of the properties                                            *)
(***************************************************************************)
\* search_repositories has just returned / returned from the end of its loop
Returned == pc = "report"
ReturnedFromLoop == pc = "report" /\ searchFailed = "no"

NumEntries == Len(repo_elements)

\* len(repo_elements[:N]): min(N, M) for N >= 0, max(M + N, 0) for N < 0
NumProcessed == IF count >= 0 THEN Min(count, NumEntries) ELSE Max(NumEntries + count, 0)

Visited(i) == outcome[i] # "unvisited"
EntriesWith(o) == {i \in 1..Len(outcome) : outcome[i] = o}

Resolvable(e) == e.link = "elem" /\ Truthy(e.href) /\ Truthy(Strip(e.name))

\* display names of the entries 1..n whose record was fetched, in page order
RECURSIVE FetchedNames(_)
FetchedNames(n) ==
    IF n = 0 THEN <<>>
    ELSE FetchedNames(n - 1)
         \o (IF outcome[n] = "fetched" THEN <<Strip(repo_elements[n].name)>> ELSE <<>>)

NamesOf(records) == [j \in 1..Len(records) |-> records[j].repository]

\* C1 as stated: search_repositories processes exactly the first min(N, M)
\* entries, returns the fetched ones in page order, and the length of the
\* returned list is min(N, M) minus the number of failed entries (the detail
\* fetch failed, or the processing of the entry raised).
C1_AsStated ==
    (ReturnedFromLoop /\ count >= 0) =>
        /\ \A i \in 1..NumEntries : Visited(i) <=> i <= Min(count, NumEntries)
        /\ NamesOf(results) = FetchedNames(NumEntries)
        /\ Len(results) = Min(count, NumEntries) - Cardinality(EntriesWith("dropped"))
                            - Cardinality(EntriesWith("raised"))

\* C1 amended: search_repositories processes exactly the entries of
\* repo_elements[:N] (the first min(N, M) for N >= 0) in page order; later
\* entries are processed whatever happened to earlier ones; the returned list
\* holds, in page order, exactly the entries whose detail fetch returned a
\* record; its length is the number processed minus the failed entries (the
\* detail fetch failed, or the processing of the entry raised) and minus the
\* entries skipped as unresolvable.
C1_Amended ==
    ReturnedFromLoop =>
        /\ \A i \in 1..NumEntries : Visited(i) <=> i <= NumProcessed
        /\ NamesOf(results) = FetchedNames(NumEntries)
        /\ \A i \in EntriesWith("fetched") :
                Resolvable(repo_elements[i]) /\ ~repo_elements[i].gotoRaises
        /\ \A i \in EntriesWith("dropped") :
                Resolvable(repo_elements[i]) /\ repo_elements[i].gotoRaises
        /\ \A i \in EntriesWith("skipped") : ~Resolvable(repo_elements[i])
        /\ Len(results) = NumProcessed - Cardinality(EntriesWith("dropped"))
                            - Cardinality(EntriesWith("skipped"))
                            - Cardinality(EntriesWith("raised"))

\* an entry whose detail fetch failed, then a fetched one, with more entries
\* on the page than were requested
C1_Witness ==
    /\ ReturnedFromLoop
    /\ count >= 0 /\ NumEntries > count
    /\ \E i, j \in 1..NumEntries :
          i < j /\ outcome[i] = "dropped" /\ outcome[j] = "fetched"
    /\ Len(results) = 1

\* C2 as stated: a skipped entry does not use up one of the N entries: the
\* loop goes on until N entries that were not skipped have been handled or
\* the page has no more entries.
C2_AsStated ==
    (ReturnedFromLoop /\ count >= 0) =>
        \/ Cardinality({i \in 1..NumEntries : Visited(i) /\ outcome[i] # "skipped"}) = count
        \/ \A i \in 1..NumEntries : Visited(i)

\* C2 amended: a skipped entry does use up one of the N entries: only the
\* entries of repo_elements[:N] are ever considered, so no entry after the
\* N-th is read, and the number of entries delegated to the detail fetcher is
\* at most N minus the number of skipped entries.
C2_Amended ==
    /\ \A i \in 1..Len(outcome) : Visited(i) => i <= NumProcessed
    /\ fetches + Cardinality(EntriesWith("skipped")) <= NumProcessed

\* a skipped entry among the first N, fewer than N delegated, and a
\* resolvable entry after the N-th left unread
C2_Witness ==
    /\ ReturnedFromLoop
    /\ count >= 1 /\ NumEntries > count
    /\ \E i \in 1..count : outcome[i] = "skipped"
    /\ fetches < count
    /\ Resolvable(repo_elements[count + 1]) /\ ~Visited(count + 1)

DetailDone == pc = "detail_done"

ErrorLicense == [name |-> S_Error, key |-> S_error, url |-> <<>>]
NoLicense == [name |-> S_NoLicense, key |-> S_no_license, url |-> <<>>]

\* C3: _get_repository_details returns no record exactly when the navigation
\* raises; when an extractor's try block raises, the record is still returned
\* and carries that extractor's default (the "error" record for the license).
C3_DropOnlyOnNavigationFailure ==
    DetailDone =>
        /\ (repo_info = <<>>) <=> navFails
        /\ ~navFails =>
            /\ DescriptionTry(page).kind = "raise"
                    => repo_info[1].description = S_NoDescription
            /\ LanguageTry(page).kind = "raise" => repo_info[1].language = S_Unknown
            /\ CountLoop(page, star_selectors).kind = "raise" => repo_info[1].stars = 0
            /\ CountLoop(page, fork_selectors).kind = "raise" => repo_info[1].forks = 0
            /\ LicenseTry(page, SampleUrl).kind = "raise"
                    => repo_info[1].license = ErrorLicense

\* the license lookup raised and a second extractor raised too, yet the
\* record was returned
C3_Witness ==
    /\ DetailDone /\ ~navFails
    /\ LicenseTry(page, SampleUrl).kind = "raise"
    /\ \/ DescriptionTry(page).kind = "raise"
       \/ LanguageTry(page).kind = "raise"
       \/ CountLoop(page, star_selectors).kind = "raise"
       \/ CountLoop(page, fork_selectors).kind = "raise"
    /\ repo_info # <<>>
    /\ repo_info[1].license.key = S_error

SearchOver == pc \in {"report", "exit", "done"}

\* C4: when the navigation to the search page raises, search_repositories
\* returns [] and fetches no repository; and whenever some entry was fetched
\* successfully the returned list is not empty.
C4_OnlySearchFailureEmpties ==
    /\ (SearchOver /\ searchFailed = "goto") => (results = <<>> /\ fetches = 0)
    /\ (SearchOver /\ EntriesWith("fetched") # {}) => results # <<>>

\* the search navigation raised
C4_Witness ==
    /\ Returned /\ searchFailed = "goto"
    /\ results = <<>> /\ fetches = 0 /\ repo_elements = <<>>

\* C5 as stated: _parse_count returns a non-negative integer for every text
\* and for None.
C5_AsStated == pc = "parse_done" => (parsed \in Int /\ parsed >= 0)

LicenseSelectorMatches(p) ==
    \E j \in 1..Len(license_selectors) : p[license_selectors[j]].kind # "none"
LicenseFilePresent(p) ==
    \E j \in 1..Len(license_files) : p[FileSelector(license_files[j])].kind # "none"
\* some license selector matches an element that names a license
LicenseNamed(p) ==
    \E j \in 1..Len(license_selectors) :
        LET element == p[license_selectors[j]]
        IN  /\ element.kind = "elem" /\ ~element.detached
            /\ Strip(element.text) # <<>> /\ Strip(element.text) # S_ViewLicense

\* C6 as stated: no license selector and no license file gives exactly the
\* "no-license" record; a raising lookup gives exactly the "error" record;
\* key "error" only when the lookup raised, key "no-license" only when the
\* page names no license and has no license file.
C6_AsStated ==
    (DetailDone /\ ~navFails) =>
        LET license == repo_info[1].license
            raised == LicenseTry(page, SampleUrl).kind = "raise"
        IN  /\ (~LicenseSelectorMatches(page) /\ ~LicenseFilePresent(page))
                    => license = NoLicense
            /\ raised => license = ErrorLicense
            /\ license.key = S_error => raised
            /\ license.key = S_no_license
                    => (~LicenseNamed(page) /\ ~LicenseFilePresent(page))

\* C7 as stated: every record has a non-empty description and language,
\* integer stars and forks and a license with its key set; on a page that
\* answers no selector every field has its default.
C7_AsStated ==
    (DetailDone /\ repo_info # <<>>) =>
        LET r == repo_info[1]
        IN  /\ r.description # <<>>
            /\ r.language # <<>>
            /\ r.stars \in Int /\ r.forks \in Int
            /\ r.license.key # <<>>
            /\ page = EmptyPage =>
                /\ r.description = S_NoDescription /\ r.language = S_Unknown
                /\ r.stars = 0 /\ r.forks = 0 /\ r.license = NoLicense

\* the first candidate, in list order, whose element has non-empty text
RECURSIVE FirstUsableText(_, _)
FirstUsableText(p, selectors) ==
    IF selectors = <<>> THEN <<>>
    ELSE LET element == p[Head(selectors)]
         IN  IF element.kind = "elem" /\ Strip(element.text) # <<>>
             THEN Strip(element.text)
             ELSE FirstUsableText(p, Tail(selectors))

NoneRaises(p, selectors) ==
    \A j \in 1..Len(selectors) :
        p[selectors[j]].kind # "raise"
        /\ (p[selectors[j]].kind = "elem" => ~p[selectors[j]].detached)

\* C8 as stated: stars and forks come from the first candidate that matches an
\* element with non-empty text, and are the default only when no candidate
\* has such an element.
C8_AsStated ==
    (DetailDone /\ ~navFails) =>
        /\ NoneRaises(page, star_selectors) =>
                repo_info[1].stars = _parse_count(FirstUsableText(page, star_selectors))
        /\ NoneRaises(page, fork_selectors) =>
                repo_info[1].forks = _parse_count(FirstUsableText(page, fork_selectors))

\* C9 as stated: when the run is over, a started playwright driver has been
\* stopped and a launched browser has been closed.
C9_AsStated == pc = "done" => (playwright # "started" /\ browser # "open")

\* C10 as stated: every entry's link, href and name are read while the shared
\* page shows the search results page.
C10_AsStated == resolvedOn \subseteq {"search"}


====
